---- MODULE Spec2Model ----
(***************************************************************************)
(* Model of extract_zones.py: the extraction pipeline (image load, crop,   *)
(* OCR call, per-line cleanup, keyword filter, main's printing) and the    *)
(* line normalizer _clean_line, rule by rule.  Text is modelled by TLA+    *)
(* strings; every regular expression of the source is an operator that     *)
(* scans the string the way re.sub / re.match / str.replace do.            *)
(***************************************************************************)
EXTENDS Integers, Sequences, FiniteSets, TLC

(***************************************************************************)
(* Characters and character classes                                        *)
(***************************************************************************)
UpperStr == "ABCDEFGHIJKLMNOPQRSTUVWXYZ"
LowerStr == "abcdefghijklmnopqrstuvwxyz"
DigitStr == "0123456789"

\* s[i:i+1] for a 1-based i: the character at i, "" outside the string
Ch(s, i) == IF i >= 1 /\ i <= Len(s) THEN SubSeq(s, i, i) ELSE ""
CharsOf(s) == {Ch(s, i) : i \in 1..Len(s)}

UpperSet == CharsOf(UpperStr)
LowerSet == CharsOf(LowerStr)
DigitSet == CharsOf(DigitStr)

\* \d
IsDigit(c) == c \in DigitSet
\* \s (the whitespace that can occur inside one line)
IsSpace(c) == c \in {" ", "\t"}
\* \w
IsWordChar(c) == c \in UpperSet \cup LowerSet \cup DigitSet \cup {"_"}

\* str.lower() of one character
LowerCh(c) ==
    IF c \in UpperSet
    THEN Ch(LowerStr, CHOOSE k \in 1..Len(UpperStr) : Ch(UpperStr, k) = c)
    ELSE c

\* str.lower()
RECURSIVE Lower(_)
Lower(s) ==
    IF Len(s) <= 1 THEN LowerCh(s)
    ELSE Lower(SubSeq(s, 1, Len(s) \div 2)) \o Lower(SubSeq(s, Len(s) \div 2 + 1, Len(s)))

\* F applied to the value of x: x is evaluated first, as a statement
\* "line = f(line)" evaluates its right-hand side before the next one runs
Then(x, F(_)) == CHOOSE r \in {F(t) : t \in {x}} : TRUE

\* s[i:] in Python terms, for a 1-based i
From(s, i) == SubSeq(s, i, Len(s))
\* s[:i]
Upto(s, i) == SubSeq(s, 1, i)

\* the literal p occurs in s at position i
IsAt(s, i, p) == i >= 1 /\ i + Len(p) - 1 <= Len(s) /\ SubSeq(s, i, i + Len(p) - 1) = p
\* the literal p occurs at i, letter case ignored (re.IGNORECASE)
IsAtI(s, i, p) ==
    /\ i >= 1
    /\ i + Len(p) - 1 <= Len(s)
    /\ LowerCh(Ch(s, i)) = LowerCh(Ch(p, 1))
    /\ Lower(SubSeq(s, i, i + Len(p) - 1)) = Lower(p)

\* "sub in s"
Contains(s, sub) == \E i \in 1..(Len(s) - Len(sub) + 1) : IsAt(s, i, sub)

IsWordPos(s, k) == k >= 1 /\ k <= Len(s) /\ IsWordChar(Ch(s, k))
\* \b between s[i-1] and s[i]
Boundary(s, i) == IsWordPos(s, i - 1) # IsWordPos(s, i)

\* first position >= i that holds no whitespace (Len(s)+1 when there is none)
RECURSIVE SkipSpaces(_, _)
SkipSpaces(s, i) == IF i <= Len(s) /\ IsSpace(Ch(s, i)) THEN SkipSpaces(s, i + 1) ELSE i

\* str.strip(): whitespace removed at both ends
RECURSIVE RStrip(_)
RStrip(s) == IF s # "" /\ IsSpace(Ch(s, Len(s))) THEN RStrip(Upto(s, Len(s) - 1)) ELSE s
Strip(s) == RStrip(From(s, SkipSpaces(s, 1)))

MinOf(S) == CHOOSE x \in S : \A y \in S : x <= y
MaxOf(S) == CHOOSE x \in S : \A y \in S : x >= y

\* re.sub(pattern, repl, s) for a pattern that matches no empty string: the
\* leftmost match is replaced and the scan resumes right after it.  End(s, i)
\* is the position of the last character of the match that starts at i (0 when
\* the pattern does not match at i); Repl(s, i) is what replaces that match.
Sub(s, End(_, _), Repl(_, _)) ==
    LET rest[from \in 1..(Len(s) + 1)] ==
            LET M == {i \in from..Len(s) : End(s, i) > 0}
                m == MinOf(M)
            IN IF M = {} THEN From(s, from)
               ELSE SubSeq(s, from, m - 1) \o Repl(s, m) \o rest[End(s, m) + 1]
    IN rest[1]

\* str.replace(old, new): left to right, matches do not overlap
Replace(s, old, new) ==
    Sub(s, LAMBDA t, i : IF IsAt(t, i, old) THEN i + Len(old) - 1 ELSE 0,
           LAMBDA t, i : new)

\* re.sub(r"\bw\b", rep, s)
SubWord(s, w, rep) ==
    Sub(s, LAMBDA t, i : IF IsAt(t, i, w) /\ Boundary(t, i) /\ Boundary(t, i + Len(w))
                         THEN i + Len(w) - 1 ELSE 0,
           LAMBDA t, i : rep)

\* re.sub(r"\bw\b", rep, s, flags=re.IGNORECASE)
SubWordI(s, w, rep) ==
    Sub(s, LAMBDA t, i : IF IsAtI(t, i, w) /\ Boundary(t, i) /\ Boundary(t, i + Len(w))
                         THEN i + Len(w) - 1 ELSE 0,
           LAMBDA t, i : rep)

(***************************************************************************)
(* _clean_line, rule by rule                                               *)
(***************************************************************************)
LeadingNoise == {"|", "!", "\"", "'", " ", "\t", ",", ".", ";", ":"}

\* re.sub(r'^[|!"\'\s,.;:]+', "", line)
RECURSIVE StripLeadingNoise(_)
StripLeadingNoise(s) ==
    IF s # "" /\ Ch(s, 1) \in LeadingNoise THEN StripLeadingNoise(From(s, 2)) ELSE s

\* line.replace("[", "(").replace("{", "(") ; .replace("]", ")").replace("}", ")")
FixBrackets(s) ==
    Then(Then(Then(Replace(s, "[", "("),
        LAMBDA t : Replace(t, "{", "(")),
        LAMBDA t : Replace(t, "]", ")")),
        LAMBDA t : Replace(t, "}", ")"))

\* re.sub(r"(\d)XY", r"\g<1>00", line) for the two letters XY that follow a digit
SubDigitPair(s, pair) ==
    Sub(s, LAMBDA t, i : IF IsDigit(Ch(t, i)) /\ IsAt(t, i + 1, pair) THEN i + 2 ELSE 0,
           LAMBDA t, i : Ch(t, i) \o "00")
FixDigitConfusions(s) == Then(SubDigitPair(s, "UU"), LAMBDA t : SubDigitPair(t, "0C"))

\* line.replace("((", "(")
CollapseOpenParens(s) == Replace(s, "((", "(")

\* re.sub(r"\bRanges?\s+E", "Range E", line)
RangesEEnd(s, i) ==
    LET a == IF IsAt(s, i + 5, "s") THEN i + 6 ELSE i + 5
        b == SkipSpaces(s, a)
    IN IF IsAt(s, i, "Range") /\ Boundary(s, i) /\ b > a /\ IsAt(s, b, "E") THEN b ELSE 0
SubRangesE(s) == Sub(s, RangesEEnd, LAMBDA t, i : "Range E")

RangeVariants == <<"Ranne", "Ranae", "Kange", "Ranaea">>
ExhaustionVariants ==
    << "Evhauetinn", "Exnaustion", "Frhaustian", "CAnausuon",
       "CAnaustion", "CANausiCn", "CANaUuSIVN", "Fehaustion",
       "Frhaustinn", "Exnausuon", "Fxhaustion" >>
HighVariants == <<"Hinh", "Hiah", "nigh", "Mign">>
ConfirmingVariants == <<"Contirming", "contirming", "Contimming">>
ChangingVariants == <<"Cnanging", "Chanaina", "Channing">>

\* a list of whole-word substitutions applied one after the other
RECURSIVE SubWords(_, _, _)
SubWords(s, ws, rep) ==
    IF ws = <<>> THEN s
    ELSE Then(SubWord(s, Head(ws), rep), LAMBDA t : SubWords(t, Tail(ws), rep))
RECURSIVE SubWordsI(_, _, _)
SubWordsI(s, ws, rep) ==
    IF ws = <<>> THEN s
    ELSE Then(SubWordI(s, Head(ws), rep), LAMBDA t : SubWordsI(t, Tail(ws), rep))
RECURSIVE ReplaceEach(_, _, _)
ReplaceEach(s, ws, rep) ==
    IF ws = <<>> THEN s
    ELSE Then(Replace(s, Head(ws), rep), LAMBDA t : ReplaceEach(t, Tail(ws), rep))

FixRange(s) == Then(SubWords(s, RangeVariants, "Range"), SubRangesE)
FixExhaustion(s) == SubWordsI(s, ExhaustionVariants, "Exhaustion")
\* a table of High that lacks its last entry
FixHighWithoutMign(s) == SubWords(s, SubSeq(HighVariants, 1, 3), "High")
FixHigh(s) == SubWords(s, HighVariants, "High")
FixZoneTypes(s) ==
    Then(ReplaceEach(s, ConfirmingVariants, "Confirming"),
         LAMBDA t : ReplaceEach(t, ChangingVariants, "Changing"))

\* position of the last character of s[1..k] that is no whitespace (0 when none)
RECURSIVE LastNonSpace(_, _)
LastNonSpace(s, k) == IF k >= 1 /\ IsSpace(Ch(s, k)) THEN LastNonSpace(s, k - 1) ELSE k

NoCloseIn(s, a, b) == \A j \in a..b : Ch(s, j) # ")"

\* the keywords of kws that end exactly at position q of s
EndingAt(s, q, kws) == {k \in kws : IsAt(s, q - Len(k) + 1, k)}
\* start positions of a match of \(([^)]*(?:k1|k2|..)) whose group ends at q
OpenStarts(s, q, kws) ==
    {p \in 1..q : /\ Ch(s, p) = "("
                  /\ NoCloseIn(s, p + 1, q)
                  /\ \E k \in EndingAt(s, q, kws) : p <= q - Len(k)}

ZoneTypeKeywords == {"Confirming", "Changing", "Weakness", "Strength"}
ZonVariants == {z \o "on" \o c : z \in {"Z", "z"}, c \in {"a", "e", "g", "k", "n", "o"}}
ZcneVariants == {"Zcne", "zcne"}

\* re.sub(r"\(([^)]*(?:Confirming|Changing|Weakness|Strength))\s+<variant>\)?\s*$",
\*        r"(\1 Zone)", line)
SubZoneEnding(s, variants) ==
    LET t == RStrip(s)
        u == IF t # "" /\ Ch(t, Len(t)) = ")" THEN Upto(t, Len(t) - 1) ELSE t
        v == Len(u) - 3
        q == LastNonSpace(u, v - 1)
        starts == OpenStarts(s, q, ZoneTypeKeywords)
    IN IF v >= 2 /\ SubSeq(u, v, Len(u)) \in variants /\ q < v - 1 /\ starts # {}
       THEN Upto(s, MinOf(starts)) \o SubSeq(s, MinOf(starts) + 1, q) \o " Zone)"
       ELSE s
FixZoneEnding(s) ==
    Then(SubZoneEnding(s, ZonVariants), LAMBDA t : SubZoneEnding(t, ZcneVariants))

ClosingKeywords == {"Zone", "Weakness", "Strength"}
\* re.sub(r"\(([^)]*(?:Zone|Weakness|Strength))\s*$", r"(\1)", line)
EnsureClosingParen(s) ==
    LET q == Len(RStrip(s))
        starts == OpenStarts(s, q, ClosingKeywords)
    IN IF starts # {}
       THEN Upto(s, MinOf(starts)) \o SubSeq(s, MinOf(starts) + 1, q) \o ")"
       ELSE s

\* first position >= i that holds no ")"
RECURSIVE SkipCloses(_, _)
SkipCloses(s, i) == IF i <= Len(s) /\ Ch(s, i) = ")" THEN SkipCloses(s, i + 1) ELSE i
\* re.sub(r"\)\)+", ")", line)
CollapseCloseParens(s) ==
    Sub(s, LAMBDA t, i : IF IsAt(t, i, "))") THEN SkipCloses(t, i) - 1 ELSE 0,
           LAMBDA t, i : ")")

ClosePositions(s) == {j \in 1..Len(s) : Ch(s, j) = ")"}
\* a normalizer without the truncation rule
KeepTrailingNoise(s) == s
\* m = re.match(r"(.*\))", line); if m and "(" in m.group(1): line = m.group(1)
StripTrailingNoise(s) ==
    IF ClosePositions(s) # {} /\ Contains(Upto(s, MaxOf(ClosePositions(s))), "(")
    THEN Upto(s, MaxOf(ClosePositions(s)))
    ELSE s

\* end of a match of X\s+Y at i, for character classes X and Y given as sets (0: none)
SpacedPairEnd(s, i, X, Y) ==
    LET b == SkipSpaces(s, i + 1)
    IN IF Ch(s, i) \in X /\ b > i + 1 /\ Ch(s, b) \in Y THEN b ELSE 0
\* re.sub(r"(\d)\s+\.", r"\1.", line)
SubDigitSpaceDot(s) ==
    Sub(s, LAMBDA t, i : SpacedPairEnd(t, i, DigitSet, {"."}),
           LAMBDA t, i : Ch(t, i) \o ".")
\* re.sub(r"\.\s+(\d)", r".\1", line)
SubDotSpaceDigit(s) ==
    Sub(s, LAMBDA t, i : SpacedPairEnd(t, i, {"."}, DigitSet),
           LAMBDA t, i : "." \o Ch(t, SpacedPairEnd(t, i, {"."}, DigitSet)))
\* re.sub(r"(\d)\s+(\d)", r"\1\2", line)
SubDigitSpaceDigit(s) ==
    Sub(s, LAMBDA t, i : SpacedPairEnd(t, i, DigitSet, DigitSet),
           LAMBDA t, i : Ch(t, i) \o Ch(t, SpacedPairEnd(t, i, DigitSet, DigitSet)))
FixNumberSpaces(s) == Then(Then(SubDigitSpaceDot(s), SubDotSpaceDigit), SubDigitSpaceDigit)

\* the class between O and N: apostrophe, backquote, slash.  A TLA+ string cannot
\* hold a backquote, so the lines of the model are over an alphabet without it.
ONSeparators == {"'", "/"}
\* the pattern without its word boundary
ONMatchLenNoBoundary(s, i) ==
    IF Ch(s, i) # "O" THEN 0
    ELSE IF Ch(s, i + 1) \in ONSeparators /\ IsAt(s, i + 2, "N") THEN 3
    ELSE IF IsAt(s, i + 1, "N") THEN 2
    ELSE 0
\* length of the match of O, an optional separator, N, \b at position i (0: no match)
ONMatchLen(s, i) ==
    IF Ch(s, i) # "O" THEN 0
    ELSE IF Ch(s, i + 1) \in ONSeparators /\ IsAt(s, i + 2, "N") /\ Boundary(s, i + 3) THEN 3
    ELSE IF IsAt(s, i + 1, "N") /\ Boundary(s, i + 2) THEN 2
    ELSE 0
\* re.sub of the O-N pattern by "O/N" (source line 165)
FixON(s) ==
    Sub(s, LAMBDA t, i : IF ONMatchLen(t, i) > 0 THEN i + ONMatchLen(t, i) - 1 ELSE 0,
           LAMBDA t, i : "O/N")

\* end of the match of (Confirming|Changing)\s+zone\) at position i (0: no match)
LowerZoneEnd(s, i, k) ==
    LET a == i + Len(k)
        b == SkipSpaces(s, a)
    IN IF IsAt(s, i, k) /\ b > a /\ IsAt(s, b, "zone)") THEN b + 4 ELSE 0
\* re.sub(r"(Confirming|Changing)\s+zone\)", r"\1 Zone)", line)
FixLowercaseZone(s) ==
    Sub(s, LAMBDA t, i : MaxOf({LowerZoneEnd(t, i, "Confirming"), LowerZoneEnd(t, i, "Changing")}),
           LAMBDA t, i : (IF IsAt(t, i, "Confirming") THEN "Confirming" ELSE "Changing")
                             \o " Zone)")

\* the line after the vocabulary rules (source lines 93-133)
Vocabulary(s) ==
    Then(Then(Then(Then(Then(Then(Then(StripLeadingNoise(s),
        FixBrackets), FixDigitConfusions), CollapseOpenParens),
        FixRange), FixExhaustion), FixHigh), FixZoneTypes)
\* the closure rules (source lines 135-151)
Closure(s) == Then(Then(FixZoneEnding(s), EnsureClosingParen), CollapseCloseParens)
\* the line as it reaches the trailing-noise rule (source lines 93-151)
\* the rules in the other order: closure repair first, vocabulary second
ClosureBeforeVocabulary(s) == Then(Closure(s), Vocabulary)
BeforeTruncation(s) == Then(Vocabulary(s), Closure)
\* the line as it reaches the O/N rule (source lines 93-162)
BeforeON(s) == Then(Then(BeforeTruncation(s), StripTrailingNoise), FixNumberSpaces)

_clean_line(line) == Then(Then(Then(BeforeON(line), FixON), FixLowercaseZone), Strip)

(***************************************************************************)
(* extract_zones and main                                                  *)
(***************************************************************************)
VARIABLES
    pc,        \* position of the program: main, imread, crop, ocr, filter, print, exit, raised
    argv,      \* sys.argv[1:]
    img,       \* what cv2.imread returns for the path: None or the image's shape
    engine,    \* what the OCR engine returns for the prepared bitmap (or EngineDown)
    x_start, x_end, y_start, y_end,   \* the crop window
    text,      \* the OCR result held by extract_zones
    pending,   \* the lines of text.splitlines() the loop has not visited yet
    lines,     \* the list extract_zones builds and returns
    stdout,    \* what main has printed
    ocrCalls,  \* number of calls of pytesseract.image_to_string
    error,     \* the exception that ended the program, "" when none
    raw,       \* an argument handed to _clean_line directly
    results    \* the results of applying _clean_line to raw once, twice

vars == << pc, argv, img, engine, x_start, x_end, y_start, y_end, text, pending,
           lines, stdout, ocrCalls, error, raw, results >>
pipeVars == << pc, argv, img, engine, x_start, x_end, y_start, y_end, text, pending,
               lines, stdout, ocrCalls, error >>

\* cv2.imread's None, and a loaded image of width w and height h (img.shape)
None == [loaded |-> FALSE, w |-> 0, h |-> 0]
Image(w, h) == [loaded |-> TRUE, w |-> w, h |-> h]
\* the OCR engine: raising, or answering with a text
EngineDown == [up |-> FALSE, text |-> ""]
Answers(t) == [up |-> TRUE, text |-> t]
Usage == "Usage: python extract_zones.py <image_path>"

Keywords ==
    {"zone", "range", "support", "resistance", "hvn", "gap",
     "initial", "aggressive", "pre-market"}
\* a filter that lets every cleaned line through
HasKeywordAlways(lower) == TRUE
\* any(kw in lower for kw in [...])
HasKeyword(lower) == \E kw \in Keywords : Contains(lower, kw)

NewlinePositions(s) == {i \in 1..Len(s) : Ch(s, i) = "\n"}
\* str.splitlines() for text whose line boundaries are "\n"
RECURSIVE splitlines(_)
splitlines(s) ==
    IF s = "" THEN <<>>
    ELSE IF NewlinePositions(s) = {} THEN <<s>>
    ELSE <<Upto(s, MinOf(NewlinePositions(s)) - 1)>>
             \o splitlines(From(s, MinOf(NewlinePositions(s)) + 1))

\* int(n * 0.50), int(n * 0.96), int(n * 0.01): the products are truncated
Half(n) == (n * 50) \div 100
Frac96(n) == (n * 96) \div 100
Frac01(n) == n \div 100

\* img is None
ImreadFailed(i) == i = None
\* an extract_zones that answers an unreadable image with an empty list
AfterImreadReturnsEmpty(i) ==
    IF ImreadFailed(i)
    THEN [pc |-> "print", error |-> ""]
    ELSE [pc |-> "crop", error |-> ""]
\* what extract_zones does right after cv2.imread
AfterImread(i) ==
    IF ImreadFailed(i)
    THEN [pc |-> "raised", error |-> "FileNotFoundError"]
    ELSE [pc |-> "crop", error |-> ""]

\* a list that takes a label only once
AppendLabelOnce(ls, cleaned) ==
    IF \E i \in 1..Len(ls) : ls[i] = cleaned THEN ls ELSE Append(ls, cleaned)
\* lines.append(cleaned)
AppendLabel(ls, cleaned) == Append(ls, cleaned)

\* one pass of the loop body over a line of the OCR text: the list afterwards
LoopBody(ls, line) ==
    LET stripped == Strip(line)
        cleaned == _clean_line(stripped)
    IN IF stripped = "" THEN ls
       ELSE IF cleaned = "" THEN ls
       ELSE IF HasKeyword(Lower(cleaned)) THEN AppendLabel(ls, cleaned)
       ELSE ls

\* main without an argument: the usage message, exit status 1
MainUsage ==
    /\ pc = "main" /\ Len(argv) < 1
    /\ stdout' = Append(stdout, Usage)
    /\ pc' = "exit"
    /\ UNCHANGED << argv, img, engine, x_start, x_end, y_start, y_end, text, pending,
                    lines, ocrCalls, error, raw, results >>

\* main calls extract_zones(sys.argv[1])
MainCall ==
    /\ pc = "main" /\ Len(argv) >= 1
    /\ pc' = "imread"
    /\ UNCHANGED << argv, img, engine, x_start, x_end, y_start, y_end, text, pending,
                    lines, stdout, ocrCalls, error, raw, results >>

\* img = cv2.imread(image_path); if img is None: raise FileNotFoundError
Imread ==
    /\ pc = "imread"
    /\ pc' = AfterImread(img).pc
    /\ error' = AfterImread(img).error
    /\ UNCHANGED << argv, img, engine, x_start, x_end, y_start, y_end, text, pending,
                    lines, stdout, ocrCalls, raw, results >>

\* mask, crop, rescale: cv2.resize raises on an empty region
Crop ==
    /\ pc = "crop"
    /\ x_start' = Half(img.w)
    /\ x_end' = Frac96(img.w)
    /\ y_start' = Frac01(img.h)
    /\ y_end' = Frac96(img.h)
    /\ IF x_end' - x_start' = 0 \/ y_end' - y_start' = 0
       THEN pc' = "raised" /\ error' = "cv2.error"
       ELSE pc' = "ocr" /\ error' = error
    /\ UNCHANGED << argv, img, engine, text, pending, lines, stdout, ocrCalls, raw, results >>

\* text = pytesseract.image_to_string(...); the loop starts over text.splitlines()
Ocr ==
    /\ pc = "ocr"
    /\ ocrCalls' = ocrCalls + 1
    /\ IF engine = EngineDown
       THEN pc' = "raised" /\ error' = "TesseractError" /\ UNCHANGED << text, pending >>
       ELSE /\ text' = engine.text
            /\ pending' = splitlines(engine.text)
            /\ pc' = "filter"
            /\ error' = error
    /\ UNCHANGED << argv, img, engine, x_start, x_end, y_start, y_end, lines, stdout,
                    raw, results >>

\* one iteration of "for line in text.splitlines()"
FilterLine ==
    /\ pc = "filter" /\ pending # <<>>
    /\ lines' = LoopBody(lines, Head(pending))
    /\ pending' = Tail(pending)
    /\ UNCHANGED << pc, argv, img, engine, x_start, x_end, y_start, y_end, text, stdout,
                    ocrCalls, error, raw, results >>

\* return lines, back in main
Return ==
    /\ pc = "filter" /\ pending = <<>>
    /\ pc' = "print"
    /\ UNCHANGED << argv, img, engine, x_start, x_end, y_start, y_end, text, pending,
                    lines, stdout, ocrCalls, error, raw, results >>

\* for line in lines: print(line)
PrintLine ==
    /\ pc = "print" /\ Len(stdout) < Len(lines)
    /\ stdout' = Append(stdout, lines[Len(stdout) + 1])
    /\ UNCHANGED << pc, argv, img, engine, x_start, x_end, y_start, y_end, text, pending,
                    lines, ocrCalls, error, raw, results >>

\* main returns
MainExit ==
    /\ pc = "print" /\ Len(stdout) = Len(lines)
    /\ pc' = "exit"
    /\ UNCHANGED << argv, img, engine, x_start, x_end, y_start, y_end, text, pending,
                    lines, stdout, ocrCalls, error, raw, results >>

Next ==
    \/ MainUsage \/ MainCall \/ Imread \/ Crop \/ Ocr
    \/ FilterLine \/ Return \/ PrintLine \/ MainExit

(***************************************************************************)
(* The worlds the program runs in                                          *)
(***************************************************************************)
MaxLines == 3
MaxW == 25
MaxH == 25

\* sequences of at most n elements of S
SeqsUpTo(S, n) == UNION {[1..k -> S] : k \in 0..n}
\* "".join(parts)
RECURSIVE Join(_)
Join(parts) == IF parts = <<>> THEN "" ELSE Head(parts) \o Join(Tail(parts))

\* raw lines as the OCR engine gives them, each ended by its line break
OcrLines ==
    { "Resistance Zone 26268.00-26360.50 (Bias Contirming Zona\n",
      "| 24H Ranne Exnaustion Hinh \n",
      "Support Zone 24806 .25\n",
      "(O/N) Gap\n",
      "  .,; \n",
      "\n" }
OcrTexts == {Join(ls) : ls \in SeqsUpTo(OcrLines, MaxLines)}
ShortTexts == {"", "Initial Resistance 25373\nnoise\n"}

PipeStart ==
    /\ pc = "main"
    /\ x_start = 0 /\ x_end = 0 /\ y_start = 0 /\ y_end = 0
    /\ text = "" /\ pending = <<>> /\ lines = <<>> /\ stdout = <<>>
    /\ ocrCalls = 0 /\ error = ""
NoDirectCall == raw = "" /\ results = <<>>

\* a full-size screenshot, any OCR text; or no file; or no argument
Init ==
    /\ PipeStart /\ NoDirectCall
    /\ \/ argv = <<>> /\ img = None /\ engine = EngineDown
       \/ argv = <<"chart.png">> /\ img = None /\ engine = EngineDown
       \/ argv = <<"chart.png">> /\ img = Image(1920, 1080) /\ engine = EngineDown
       \/ /\ argv = <<"chart.png">>
          /\ img = Image(1920, 1080)
          /\ engine \in {Answers(t) : t \in OcrTexts}

Spec == Init /\ [][Next]_vars

\* images of every small size, little OCR text
InitCrop ==
    /\ PipeStart /\ NoDirectCall
    /\ \/ argv = <<>> /\ img = None /\ engine = EngineDown
       \/ argv = <<"chart.png">> /\ img = None /\ engine = EngineDown
       \/ /\ argv = <<"chart.png">>
          /\ img \in {Image(a, b) : a \in 1..MaxW, b \in 1..MaxH}
          /\ engine \in {Answers(t) : t \in ShortTexts} \cup {EngineDown}

SpecCrop == InitCrop /\ [][Next]_vars

(***************************************************************************)
(* _clean_line called directly on a line                                   *)
(***************************************************************************)
\* cleaned = _clean_line(raw)
CleanOnce ==
    /\ results = <<>>
    /\ results' = <<_clean_line(raw)>>
    /\ UNCHANGED << pipeVars, raw >>

\* _clean_line run again on its own result
CleanAgain ==
    /\ Len(results) = 1
    /\ results' = Append(results, _clean_line(results[1]))
    /\ UNCHANGED << pipeVars, raw >>

NextClean == CleanOnce
NextTwice == CleanOnce \/ CleanAgain

PipeIdle == PipeStart /\ argv = <<>> /\ img = None /\ engine = EngineDown
\* the lines made of at most n of the given fragments
LinesOf(fragments, n) == {Join(f) : f \in SeqsUpTo(fragments, n)}

MaxNumberFrags == 5
NumberFragments == {"1", "2", " ", ".", "x"}
InitNumbers == PipeIdle /\ results = <<>> /\ raw \in LinesOf(NumberFragments, MaxNumberFrags)
SpecNumbers == InitNumbers /\ [][NextTwice]_vars

MaxParenFrags == 5
ParenFragments == {"(", ")", "a", " "}
InitParens == PipeIdle /\ results = <<>> /\ raw \in LinesOf(ParenFragments, MaxParenFrags)
SpecParens == InitParens /\ [][NextClean]_vars

\* the misspelling table: garbled form, canonical spelling, letter case ignored or not
RECURSIVE TableOf(_, _, _)
TableOf(ws, good, anycase) ==
    IF ws = <<>> THEN {}
    ELSE {[bad |-> Head(ws), good |-> good, anycase |-> anycase]}
             \cup TableOf(Tail(ws), good, anycase)
GarbledTable ==
    TableOf(RangeVariants, "Range", FALSE) \cup TableOf(ExhaustionVariants, "Exhaustion", TRUE)
        \cup TableOf(HighVariants, "High", FALSE)
        \cup TableOf(ConfirmingVariants, "Confirming", FALSE)
        \cup TableOf(ChangingVariants, "Changing", FALSE)

UpperCh(c) ==
    IF c \in LowerSet
    THEN Ch(UpperStr, CHOOSE k \in 1..Len(LowerStr) : Ch(LowerStr, k) = c)
    ELSE c
RECURSIVE Upper(_)
Upper(s) ==
    IF Len(s) <= 1 THEN UpperCh(s)
    ELSE Upper(SubSeq(s, 1, Len(s) \div 2)) \o Upper(SubSeq(s, Len(s) \div 2 + 1, Len(s)))
\* the letter cases a garbled form is tried in
Renderings(e) == IF e.anycase THEN {e.bad, Upper(e.bad), Lower(e.bad)} ELSE {e.bad}

MaxContext == 2
ContextFragments == {" ", "(a)", "x"}
\* a garbled form with at most MaxContext fragments around it
VocabContexts ==
    UNION { { [pre |-> a, post |-> b] : b \in SeqsUpTo(ContextFragments, MaxContext - Len(a)) } :
              a \in SeqsUpTo(ContextFragments, MaxContext) }
VocabLines ==
    { Join(c.pre) \o g \o Join(c.post) :
        c \in VocabContexts, g \in UNION {Renderings(e) : e \in GarbledTable} }
InitVocab == PipeIdle /\ results = <<>> /\ raw \in VocabLines
SpecVocab == InitVocab /\ [][NextClean]_vars

MaxInner == 2
InnerFragments == {"a ", "1 ", "("}
ZoneTypeVariants == {"Contirming", "contirming", "Contimming", "Cnanging", "Chanaina", "Channing"}
\* an open parenthetical that ends in a garbled zone type and a garbled "Zone"
OrderLines ==
    { "(" \o Join(inner) \o t \o " " \o z \o close :
        inner \in SeqsUpTo(InnerFragments, MaxInner),
        t \in ZoneTypeVariants,
        z \in ZonVariants \cup ZcneVariants,
        close \in {"", ")"} }
InitOrder == PipeIdle /\ results = <<>> /\ raw \in OrderLines
SpecOrder == InitOrder /\ [][NextClean]_vars

MaxSlashFrags == 4
SlashFragments == {"O", "N", "'", "/", "x", " "}
InitSlash == PipeIdle /\ results = <<>> /\ raw \in LinesOf(SlashFragments, MaxSlashFrags)
SpecSlash == InitSlash /\ [][NextClean]_vars

(***************************************************************************)
(* Properties                                                              *)
(***************************************************************************)
EndsWith(s, suffix) == Len(s) >= Len(suffix) /\ From(s, Len(s) - Len(suffix) + 1) = suffix
NumCloses(s) == Cardinality({j \in 1..Len(s) : Ch(s, j) = ")"})
HoldsKeyword(label) == \E kw \in Keywords : Contains(Lower(label), kw)
Called == Len(results) >= 1

\* C1: every label extract_zones retains is a non-empty string whose lowercase
\* form contains one of the nine keywords, and while lines are filtered, dropped
\* or printed no error is raised.
RetainedLabelsHoldKeyword ==
    /\ \A i \in 1..Len(lines) : lines[i] # "" /\ HoldsKeyword(lines[i])
    /\ (pc \in {"filter", "print", "exit"}) => (error = "")
\* a text of which a line was kept and a line was dropped has been filtered
SomeKeptSomeDropped ==
    /\ pc = "print" /\ error = ""
    /\ Len(lines) >= 1
    /\ Len(lines) < Len(splitlines(text))

\* the OCR lines after normalization, in the engine's order
NormalizedLines(t) ==
    [i \in 1..Len(splitlines(t)) |-> _clean_line(Strip(splitlines(t)[i]))]
IsLabel(c) == c # "" /\ HoldsKeyword(c)
\* C2: the list extract_zones returns is exactly the normalized OCR lines that
\* are non-empty and hold a keyword, in the engine's order, duplicates kept; main
\* prints them in that order.
ReturnedIsFilteredSubsequence ==
    /\ (pc = "print" /\ stdout = <<>>) => (lines = SelectSeq(NormalizedLines(text), IsLabel))
    /\ (pc \in {"print", "exit"} /\ argv # <<>>) => (stdout = SubSeq(lines, 1, Len(stdout)))
\* a label returned twice with another label between the two
DuplicateKeptInOrder ==
    /\ pc = "print" /\ stdout = <<>>
    /\ Len(lines) = 3
    /\ lines[1] = lines[3]
    /\ lines[1] # lines[2]

\* C3: normalizing a normalized line changes nothing,
\* _clean_line(_clean_line(s)) = _clean_line(s).
Idempotent == (Len(results) = 2) => (results[2] = results[1])

\* C4: when the image cannot be loaded the run ends in FileNotFoundError at
\* once: the OCR engine is never called, no label is returned, nothing is
\* printed.
LoadFailureEndsRun ==
    (argv # <<>> /\ img = None) =>
        /\ pc \in {"main", "imread", "raised"}
        /\ (pc = "raised") => (error = "FileNotFoundError")
        /\ (pc # "raised") => (error = "")
        /\ ocrCalls = 0
        /\ lines = <<>>
        /\ stdout = <<>>
\* the run of an unreadable image has ended
LoadFailureRaised ==
    /\ argv # <<>> /\ img = None
    /\ pc = "raised" /\ error = "FileNotFoundError"

\* whitespace stands between a character of X and a later character of Y
GapBetween(s, X, Y) ==
    \E i \in 1..Len(s) : \E j \in (i + 2)..Len(s) :
        /\ Ch(s, i) \in X
        /\ Ch(s, j) \in Y
        /\ \A k \in (i + 1)..(j - 1) : IsSpace(Ch(s, k))
\* C5: the output of _clean_line holds no whitespace between two digits, none
\* between a digit and a following decimal point, none between a decimal point
\* and a following digit.
NoNumericGaps ==
    Called =>
        /\ ~GapBetween(results[1], DigitSet, DigitSet)
        /\ ~GapBetween(results[1], DigitSet, {"."})
        /\ ~GapBetween(results[1], {"."}, DigitSet)

OpenThenClose(s) ==
    \E i \in 1..Len(s) : \E j \in (i + 1)..Len(s) : Ch(s, i) = "(" /\ Ch(s, j) = ")"
\* what follows the first closing parenthesis that follows an opening one
AfterFirstClose(s) ==
    LET J == {j \in 1..Len(s) : Ch(s, j) = ")" /\ Contains(Upto(s, j), "(")}
    IN IF J = {} THEN "" ELSE From(s, MinOf(J) + 1)
\* C6 as stated: on a line with an opening parenthesis followed by a closing
\* one, the output holds nothing after the first closing parenthesis that
\* follows an opening one.
CutAfterFirstClose ==
    (Called /\ OpenThenClose(raw)) => (AfterFirstClose(results[1]) = "")
\* C6: on a line with an opening parenthesis followed by a closing one, the
\* output is the line as it reaches the rule, cut after its last closing
\* parenthesis: what stands between the first and the last closing parenthesis
\* is kept.
CutAfterLastClose ==
    (Called /\ OpenThenClose(raw)) =>
        LET reached == BeforeTruncation(raw)
            J == {j \in 1..Len(reached) : Ch(reached, j) = ")"}
        IN /\ J # {}
           /\ results[1] = Upto(reached, MaxOf(J))
           /\ EndsWith(results[1], ")")
\* text after the last of two closing parentheses was discarded
NoiseCutAfterSecondClose ==
    /\ Called /\ OpenThenClose(raw)
    /\ NumCloses(results[1]) = 2
    /\ Len(results[1]) < Len(BeforeTruncation(raw))

\* the garbled form of e stands in s as a whole word
HasGarbled(s, e) ==
    \E i \in 1..Len(s) :
        /\ IF e.anycase THEN IsAtI(s, i, e.bad) ELSE IsAt(s, i, e.bad)
        /\ Boundary(s, i)
        /\ Boundary(s, i + Len(e.bad))
\* C7 as stated: a line that holds a listed garbled form as a whole word is
\* normalized to a line that holds the canonical spelling and not the garbled
\* form.
GarbledBecomesCanonical ==
    Called =>
        \A e \in GarbledTable :
            HasGarbled(raw, e) =>
                Contains(results[1], e.good) /\ ~HasGarbled(results[1], e)
\* C7: a line that holds a listed garbled form as a whole word is normalized to
\* a line without the garbled form; the vocabulary rules give the canonical
\* spelling, and the output holds it unless the truncation after the last
\* closing parenthesis has cut every canonical spelling off.
GarbledBecomesCanonicalUnlessCut ==
    Called =>
        \A e \in GarbledTable :
            HasGarbled(raw, e) =>
                /\ ~HasGarbled(results[1], e)
                /\ Contains(Vocabulary(raw), e.good)
                /\ \/ Contains(results[1], e.good)
                   \/ ~Contains(StripTrailingNoise(BeforeTruncation(raw)), e.good)
\* a garbled form written in another letter case was corrected
OtherCaseCorrected ==
    /\ Called
    /\ \E e \in GarbledTable :
           /\ HasGarbled(raw, e)
           /\ ~Contains(raw, e.bad)
           /\ Contains(results[1], e.good)

\* C8: a line ending in an open parenthetical whose last words are a garbled
\* Confirming or Changing and a garbled Zone, closing parenthesis present or
\* missing, is normalized to a line ending in "(... Confirming Zone)" or
\* "(... Changing Zone)" with exactly one closing parenthesis.
GarbledZoneEndingRepaired ==
    Called =>
        LET type == IF \E v \in {"Contirming", "contirming", "Contimming"} : Contains(raw, v)
                    THEN "Confirming" ELSE "Changing"
        IN /\ EndsWith(results[1], type \o " Zone)")
           /\ NumCloses(results[1]) = 1
           /\ Ch(results[1], 1) = "("
\* a parenthetical left open after two garbled words was repaired
OpenGarbledEndingRepaired ==
    /\ raw = "(a Contirming zcne"
    /\ results = <<"(a Confirming Zone)">>

\* the line as it reaches the slash-notation step, and as it leaves it
SlashIn == BeforeON(raw)
SlashOut == FixON(SlashIn)
\* O, a separator, N at position i
SeparatedAt(s, i) == Ch(s, i) = "O" /\ Ch(s, i + 1) \in {"'", "/"} /\ Ch(s, i + 2) = "N"
\* O directly followed by N at position i
JoinedAt(s, i) == Ch(s, i) = "O" /\ Ch(s, i + 1) = "N"
\* s with its apostrophes and slashes left out
RECURSIVE Letters(_)
Letters(s) ==
    IF Len(s) <= 1 THEN (IF s \in {"'", "/"} THEN "" ELSE s)
    ELSE Letters(SubSeq(s, 1, Len(s) \div 2)) \o Letters(SubSeq(s, Len(s) \div 2 + 1, Len(s)))
\* C9 as stated: the step rewrites exactly the occurrences of O, a separator,
\* N; a line without such an occurrence leaves the step unchanged.
OnlySeparatedRewritten ==
    Called =>
        /\ results[1] = Strip(SlashOut)
        /\ (\A i \in 1..Len(SlashIn) : ~SeparatedAt(SlashIn, i)) => (SlashOut = SlashIn)
        /\ \A i \in 1..Len(SlashOut) : SeparatedAt(SlashOut, i) => (Ch(SlashOut, i + 1) = "/")
\* C9: the step rewrites to "O/N" the occurrences of O, an optional separator,
\* N that end at a word boundary, and nothing else: a line without such an
\* occurrence leaves the step unchanged, afterwards every such occurrence reads
\* "O/N", and only separators are added or changed.
WordEndingONRewritten ==
    Called =>
        LET Occurs(s, i) ==
                \/ SeparatedAt(s, i) /\ ~IsWordChar(Ch(s, i + 3))
                \/ JoinedAt(s, i) /\ ~IsWordChar(Ch(s, i + 2))
        IN /\ results[1] = Strip(SlashOut)
           /\ (\A i \in 1..Len(SlashIn) : ~Occurs(SlashIn, i)) => (SlashOut = SlashIn)
           /\ \A i \in 1..Len(SlashOut) :
                  Occurs(SlashOut, i) => (SeparatedAt(SlashOut, i) /\ Ch(SlashOut, i + 1) = "/")
           /\ Letters(SlashOut) = Letters(SlashIn)
\* an O directly followed by N at the end of a word was given its slash
JoinedONRewritten ==
    /\ raw = "xON"
    /\ results = <<"xO/N">>

\* C10: for a readable image the crop window lies inside the image and is not
\* empty, 0 <= x_start < x_end <= w and 0 <= y_start < y_end <= h.
CropWindowInsideNonEmpty ==
    (img.loaded /\ pc \in {"ocr", "filter", "print", "exit", "raised"}) =>
        /\ 0 <= x_start /\ x_start < x_end /\ x_end <= img.w
        /\ 0 <= y_start /\ y_start < y_end /\ y_end <= img.h

====
